---- MODULE Spec2Model ----
(***************************************************************************)
(* State-machine model of the Coderr marketplace backend (Django REST).    *)
(* The database tables are the state; every routed view is one action that *)
(* models the whole request, from the permission checks to the last save.  *)
(***************************************************************************)
EXTENDS Integers, Sequences, FiniteSets, TLC

(***************************************************************************)
(* Bounds of the model.                                                    *)
(***************************************************************************)
MaxOffers == 1
MaxOrders == 2
MaxUsers == 2
MaxReviews == 2
MaxItems == 2

(***************************************************************************)
(* Enumerations of the models.                                             *)
(***************************************************************************)
OfferType == {"basic", "standard", "premium"}

\* A choice set with a fourth state
Status_Open == {"in_progress", "completed", "canceled", "shipped"}

Status == {"in_progress", "completed", "canceled"}

Type == {"customer", "business"}

\* item.get('offer_type') of a dict without that key
None == "None"

\* The request user of a request without credentials (AnonymousUser)
Anonymous == 0

(***************************************************************************)
(* State.                                                                  *)
(***************************************************************************)
VARIABLES
    users,          \* auth_app User rows: id -> [username, email, type, first_name]
    tokens,         \* authtoken Token rows: the set of user ids owning a token
    offers,         \* Offer rows: id -> [user, title, description, min_price, min_delivery_time]
    details,        \* Detail rows: id -> [offer, offer_type, title, revisions, delivery_time_in_days, price, features]
    orders,         \* Order rows: id -> [customer_user, business_user, <snapshot>, status]
    reviews,        \* Review rows: id -> [business_user, reviewer, rating, description]
    nextId,         \* AUTOINCREMENT counters of the tables: table name -> next primary key
    last,           \* the last request and its response: [op, user, pk, body, status]
    requests        \* requests being served: worker -> the handler's position and local variables

vars == <<users, tokens, offers, details, orders, reviews, nextId, last, requests>>

Tables == {"user", "offer", "detail", "order", "review"}

EmptyTable == [x \in {} |-> 0]

\* The worker processes (or threads) of the server: two requests at a time
Workers == {1, 2}

\* A worker that is serving no request
Idle == [op |-> "idle"]

NoRequests == [w \in Workers |-> Idle]

\* op: the operation; user: the caller; pk: the id in the URL or the body;
\* body: what the view read of the payload, as a list; status: the HTTP status
Response(op, user, pk, status) ==
    [op |-> op, user |-> user, pk |-> pk, body |-> <<>>, status |-> status]

(***************************************************************************)
(* Helpers shared by the views.                                            *)
(***************************************************************************)
\* request.user.is_authenticated
IsAuthenticated(a) == a \in DOMAIN users

\* dict.get(key) on a payload dict
Get(item, key) == IF key \in DOMAIN item THEN item[key] ELSE None

\* A key of a payload dict as the handler finds it: <<>> when absent, <<v>> else
Opt(data, key) == IF key \in DOMAIN data THEN <<data[key]>> ELSE <<>>

\* Python's min() over a non-empty set of integers
Min(S) == CHOOSE x \in S : \A y \in S : x <= y

\* offer.details.all(): the ids of the Detail rows whose foreign key is the offer
DetailsOf(dets, oid) == {d \in DOMAIN dets : dets[d].offer = oid}

\* A cascade that leaves the Detail rows of a deleted offer behind
CascadeDetails_None(dets, oid) == dets

\* on_delete=CASCADE of Detail.offer: deleting the offer deletes its Detail rows
CascadeDetails(dets, oid) == [d \in DOMAIN dets \ DetailsOf(dets, oid) |-> dets[d]]

\* A cascade that follows the offer's owner into the Order table
CascadeOrders_ByOwner(ords, oid) ==
    [o \in {x \in DOMAIN ords : ords[x].business_user # offers[oid].user} |-> ords[o]]

\* The same cascade seen from the Order table: Order has no foreign key to
\* Offer or Detail (only the two user keys), so the collector finds no Order
CascadeOrders(ords, oid) == ords

\* Row removal from a table
Remove(table, pk) == [k \in DOMAIN table \ {pk} |-> table[k]]

(***************************************************************************)
(* offers_app                                                              *)
(***************************************************************************)
\* A permission that lets every authenticated account through
IsBusinessUser_Any(a) == TRUE

\* permissions.IsBusinessUser.has_permission
IsBusinessUser(a) == users[a].type = "business"

\* An object permission that lets every authenticated account through
IsOfferOwner_Anyone(a, oid) == TRUE

\* permissions.IsOfferOwner.has_object_permission
IsOfferOwner(a, oid) == offers[oid].user = a

\* DetailSerializer field validation of one item of the nested list:
\* offer_type is a required ChoiceField over Detail.OfferType
DetailItemValid(item) == Get(item, "offer_type") \in OfferType

\* A validation that only counts the items
validate_details_LenOnly(value) == Len(value) = 3

\* OfferCreateSerializer.validate_details
validate_details(value) ==
    /\ Len(value) = 3
    /\ {value[i].offer_type : i \in 1..Len(value)} = {"basic", "standard", "premium"}

\* Model defaults of Detail, used for the keys an item does not carry
DetailDefaults ==
    [title |-> "", revisions |-> 0, delivery_time_in_days |-> 0, price |-> 0,
     features |-> <<>>, offer_type |-> "standard"]

DetailFields == {"title", "revisions", "delivery_time_in_days", "price", "features"}

\* Detail.objects.create(offer=offer, **item)
NewDetail(oid, item) ==
    [f \in DOMAIN DetailDefaults |-> IF f \in DOMAIN item THEN item[f] ELSE DetailDefaults[f]]
        @@ [offer |-> oid]

\* The running minimum of OfferCreateSerializer.create over the first n items
\* (<<>> is Python's None, <<v>> the integer v)
RECURSIVE CreateMin(_, _, _)
CreateMin(items, field, n) ==
    IF n = 0 THEN <<>>
    ELSE LET m == CreateMin(items, field, n - 1)
             v == NewDetail(0, items[n])[field]
         IN IF m = <<>> \/ v < m[1] THEN <<v>> ELSE m

\* Python's `x or 0` for an integer or None
OrZero(x) == IF x = <<>> \/ x[1] = 0 THEN 0 ELSE x[1]

\* OfferCreateSerializer.create: the Offer row, the Detail rows in list order,
\* then the cached minima written back to the Offer
create_offer(a, data) ==
    LET oid == nextId["offer"]
        did == nextId["detail"]
        items == data.details
        n == Len(items)
    IN /\ offers' = offers @@ (oid :>
              [user |-> a, title |-> data.title, description |-> data.description,
               min_price |-> OrZero(CreateMin(items, "price", n)),
               min_delivery_time |-> OrZero(CreateMin(items, "delivery_time_in_days", n))])
       /\ details' = details @@ [d \in did..(did + n - 1) |-> NewDetail(oid, items[d - did + 1])]
       /\ nextId' = [nextId EXCEPT !["offer"] = oid + 1, !["detail"] = did + n]

\* The offer_type values of the details list of a create payload, in order
\* (the empty list for a payload without the details key)
TypesOf(data) ==
    IF "details" \in DOMAIN data
    THEN [i \in 1..Len(data.details) |-> Get(data.details[i], "offer_type")]
    ELSE <<>>

\* OfferListCreateView POST: get_permissions, serializer validation, create
CreateOffer(a, data) ==
    /\ nextId["offer"] <= MaxOffers
    /\ IF ~IsAuthenticated(a) THEN
            /\ last' = [Response("CreateOffer", a, 0, 401) EXCEPT !.body = TypesOf(data)]
            /\ UNCHANGED <<offers, details, nextId>>
       ELSE IF ~IsBusinessUser(a) THEN
            /\ last' = [Response("CreateOffer", a, 0, 403) EXCEPT !.body = TypesOf(data)]
            /\ UNCHANGED <<offers, details, nextId>>
       ELSE IF "details" \notin DOMAIN data
               \/ (\E i \in 1..Len(data.details) : ~DetailItemValid(data.details[i]))
               \/ ~validate_details(data.details) THEN
            /\ last' = [Response("CreateOffer", a, 0, 400) EXCEPT !.body = TypesOf(data)]
            /\ UNCHANGED <<offers, details, nextId>>
       ELSE /\ create_offer(a, data)
            /\ last' = [Response("CreateOffer", a, nextId["offer"], 201) EXCEPT !.body = TypesOf(data)]
    /\ UNCHANGED <<users, tokens, orders, reviews, requests>>

\* The fields of one payload item written onto a Detail instance
SetFields(detail, item) ==
    [f \in DOMAIN detail |-> IF f \in DetailFields /\ f \in DOMAIN item THEN item[f] ELSE detail[f]]

\* OfferDetailView._update_details over the items from position i on: each
\* matched Detail is changed and saved before the next item is looked at.
\* Result: the Detail table and whether an unknown offer_type ended the loop.
RECURSIVE update_details(_, _, _, _)
update_details(dets, oid, items, i) ==
    IF i > Len(items) THEN [details |-> dets, err |-> FALSE]
    ELSE LET offer_type == Get(items[i], "offer_type")
             match == {d \in DetailsOf(dets, oid) : dets[d].offer_type = offer_type}
         IN IF match = {} THEN [details |-> dets, err |-> TRUE]
            ELSE LET d == CHOOSE x \in match : TRUE
                 IN update_details([dets EXCEPT ![d] = SetFields(dets[d], items[i])],
                                   oid, items, i + 1)

\* OfferDetailView._update_scalar_fields
update_scalar_fields(offer, data) ==
    [f \in DOMAIN offer |->
        IF f \in {"title", "description"} /\ f \in DOMAIN data THEN data[f] ELSE offer[f]]

\* OfferDetailView._recalc_and_save
recalc_and_save(offer, dets, oid) ==
    IF DetailsOf(dets, oid) # {} THEN
        [offer EXCEPT
            !.min_price = Min({dets[d].price : d \in DetailsOf(dets, oid)}),
            !.min_delivery_time = Min({dets[d].delivery_time_in_days : d \in DetailsOf(dets, oid)})]
    ELSE offer

\* OfferDetailView.patch
UpdateOffer(a, oid, data) ==
    /\ IF ~IsAuthenticated(a) THEN
            /\ last' = Response("UpdateOffer", a, oid, 401)
            /\ UNCHANGED <<offers, details>>
       ELSE IF oid \notin DOMAIN offers THEN
            /\ last' = Response("UpdateOffer", a, oid, 404)
            /\ UNCHANGED <<offers, details>>
       ELSE IF ~IsOfferOwner(a, oid) THEN
            /\ last' = Response("UpdateOffer", a, oid, 403)
            /\ UNCHANGED <<offers, details>>
       ELSE IF "details" \notin DOMAIN data THEN
            /\ offers' = [offers EXCEPT
                    ![oid] = recalc_and_save(update_scalar_fields(offers[oid], data), details, oid)]
            /\ last' = Response("UpdateOffer", a, oid, 200)
            /\ UNCHANGED details
       ELSE \E r \in {update_details(details, oid, data.details, 1)} :
               /\ details' = r.details
               /\ IF r.err THEN
                       /\ last' = Response("UpdateOffer", a, oid, 400)
                       /\ UNCHANGED offers
                  ELSE /\ offers' = [offers EXCEPT
                               ![oid] = recalc_and_save(update_scalar_fields(offers[oid], data),
                                                        r.details, oid)]
                       /\ last' = Response("UpdateOffer", a, oid, 200)
    /\ UNCHANGED <<users, tokens, orders, reviews, nextId, requests>>

\* OfferDetailView.delete: destroy() removes the Offer, the cascade its Details
DeleteOffer(a, oid) ==
    /\ IF ~IsAuthenticated(a) THEN
            /\ last' = Response("DeleteOffer", a, oid, 401)
            /\ UNCHANGED <<offers, details, orders>>
       ELSE IF oid \notin DOMAIN offers THEN
            /\ last' = Response("DeleteOffer", a, oid, 404)
            /\ UNCHANGED <<offers, details, orders>>
       ELSE IF ~IsOfferOwner(a, oid) THEN
            /\ last' = Response("DeleteOffer", a, oid, 403)
            /\ UNCHANGED <<offers, details, orders>>
       ELSE /\ offers' = Remove(offers, oid)
            /\ details' = CascadeDetails(details, oid)
            /\ orders' = CascadeOrders(orders, oid)
            /\ last' = Response("DeleteOffer", a, oid, 204)
    /\ UNCHANGED <<users, tokens, reviews, nextId, requests>>

\* The rows of a queryset without an ordering, as the database returns them:
\* by primary key
RECURSIVE Ascending(_)
Ascending(S) ==
    IF S = {} THEN <<>>
    ELSE LET m == Min(S) IN <<m>> \o Ascending(S \ {m})

\* OfferSerializer.get_details: one link object per Detail of the offer, the
\* url being "/offerdetails/<id>/"
get_details(oid) ==
    LET ids == Ascending(DetailsOf(details, oid))
    IN [i \in 1..Len(ids) |-> [id |-> ids[i], url |-> <<"offerdetails", ids[i]>>]]

\* A retrieve open to callers without credentials
GetOfferDetail_Public(a, oid) ==
    /\ IF oid \notin DOMAIN offers THEN
            last' = Response("GetOfferDetail", a, oid, 404)
       ELSE last' = [Response("GetOfferDetail", a, oid, 200) EXCEPT !.body = get_details(oid)]
    /\ UNCHANGED <<users, tokens, offers, details, orders, reviews, nextId, requests>>

\* OfferDetailView GET: get_permissions, get_object, OfferSerializer; the
\* body recorded is the details field of the response
GetOfferDetail(a, oid) ==
    /\ IF ~IsAuthenticated(a) THEN
            last' = Response("GetOfferDetail", a, oid, 401)
       ELSE IF oid \notin DOMAIN offers THEN
            last' = Response("GetOfferDetail", a, oid, 404)
       ELSE last' = [Response("GetOfferDetail", a, oid, 200) EXCEPT !.body = get_details(oid)]
    /\ UNCHANGED <<users, tokens, offers, details, orders, reviews, nextId, requests>>

(***************************************************************************)
(* orders_app                                                              *)
(***************************************************************************)
\* A permission that only asks for credentials
IsCustomerUser_Authenticated(a) == IsAuthenticated(a)

\* permissions.IsCustomerUser.has_permission
IsCustomerUser(a) == IsAuthenticated(a) /\ users[a].type = "customer"

\* A snapshot that forgets the price and keeps the model default
NewOrder_NoPrice(a, detail, owner) ==
    [customer_user |-> a,
     business_user |-> owner,
     title |-> detail.title,
     revisions |-> detail.revisions,
     delivery_time_in_days |-> detail.delivery_time_in_days,
     price |-> 0,
     features |-> detail.features,
     offer_type |-> detail.offer_type,
     status |-> "in_progress"]

\* OrderCreateSerializer.create: the Order row copied from the Detail
NewOrder(a, detail, owner) ==
    [customer_user |-> a,
     business_user |-> owner,
     title |-> detail.title,
     revisions |-> detail.revisions,
     delivery_time_in_days |-> detail.delivery_time_in_days,
     price |-> detail.price,
     features |-> detail.features,
     offer_type |-> detail.offer_type,
     status |-> "in_progress"]

\* A create without the view's own lookup of the Detail: the serializer's
\* lookup then answers with a validation error
CreateOrder_NoLookup(a, detail_id) ==
    /\ nextId["order"] <= MaxOrders
    /\ IF ~IsAuthenticated(a) THEN
            /\ last' = Response("CreateOrder", a, detail_id, 401)
            /\ UNCHANGED <<orders, nextId>>
       ELSE IF ~IsCustomerUser(a) THEN
            /\ last' = Response("CreateOrder", a, detail_id, 403)
            /\ UNCHANGED <<orders, nextId>>
       ELSE IF detail_id \notin DOMAIN details THEN
            /\ last' = Response("CreateOrder", a, detail_id, 400)
            /\ UNCHANGED <<orders, nextId>>
       ELSE /\ orders' = orders @@ (nextId["order"] :>
                    NewOrder(a, details[detail_id], offers[details[detail_id].offer].user))
            /\ nextId' = [nextId EXCEPT !["order"] = @ + 1]
            /\ last' = Response("CreateOrder", a, detail_id, 201)
    /\ UNCHANGED <<users, tokens, offers, details, reviews, requests>>

\* OrderListCreateView POST: get_permissions, then create
CreateOrder(a, detail_id) ==
    /\ nextId["order"] <= MaxOrders
    /\ IF ~IsAuthenticated(a) THEN
            /\ last' = Response("CreateOrder", a, detail_id, 401)
            /\ UNCHANGED <<orders, nextId>>
       ELSE IF ~IsCustomerUser(a) THEN
            /\ last' = Response("CreateOrder", a, detail_id, 403)
            /\ UNCHANGED <<orders, nextId>>
       ELSE IF detail_id \notin DOMAIN details THEN
            /\ last' = Response("CreateOrder", a, detail_id, 404)
            /\ UNCHANGED <<orders, nextId>>
       ELSE /\ orders' = orders @@ (nextId["order"] :>
                    NewOrder(a, details[detail_id], offers[details[detail_id].offer].user))
            /\ nextId' = [nextId EXCEPT !["order"] = @ + 1]
            /\ last' = Response("CreateOrder", a, detail_id, 201)
    /\ UNCHANGED <<users, tokens, offers, details, reviews, requests>>

\* A patch that also lets the order's customer through
IsOrderBusiness_Party(a, oid) ==
    orders[oid].business_user = a \/ orders[oid].customer_user = a

\* A patch without the check of the caller against the order's business_user
IsOrderBusiness_Anyone(a, oid) == TRUE

\* OrderDetailView.patch: order.business_user_id == user.id
IsOrderBusiness(a, oid) == orders[oid].business_user = a

\* OrderDetailView.patch; new_status is None for a body without the status key
UpdateOrderStatus(a, oid, new_status) ==
    /\ IF ~IsAuthenticated(a) THEN
            /\ last' = Response("UpdateOrderStatus", a, oid, 401)
            /\ UNCHANGED orders
       ELSE IF oid \notin DOMAIN orders THEN
            /\ last' = Response("UpdateOrderStatus", a, oid, 404)
            /\ UNCHANGED orders
       ELSE IF ~IsOrderBusiness(a, oid) THEN
            /\ last' = Response("UpdateOrderStatus", a, oid, 403)
            /\ UNCHANGED orders
       ELSE IF new_status = None THEN
            /\ last' = [Response("UpdateOrderStatus", a, oid, 400) EXCEPT !.body = <<new_status>>]
            /\ UNCHANGED orders
       ELSE IF new_status \notin Status THEN
            /\ last' = [Response("UpdateOrderStatus", a, oid, 400) EXCEPT !.body = <<new_status>>]
            /\ UNCHANGED orders
       ELSE /\ orders' = [orders EXCEPT ![oid].status = new_status]
            /\ last' = [Response("UpdateOrderStatus", a, oid, 200) EXCEPT !.body = <<new_status>>]
    /\ UNCHANGED <<users, tokens, offers, details, reviews, nextId, requests>>

\* OrderDetailView GET: get_permissions, get_object, then retrieve() asks for
\* the serializer class; the view sets none, the assertion of
\* get_serializer_class fails and the request ends in a server error
GetOrder(a, oid) ==
    /\ IF ~IsAuthenticated(a) THEN
            last' = Response("GetOrder", a, oid, 401)
       ELSE IF oid \notin DOMAIN orders THEN
            last' = Response("GetOrder", a, oid, 404)
       ELSE last' = Response("GetOrder", a, oid, 500)
    /\ UNCHANGED <<users, tokens, offers, details, orders, reviews, nextId, requests>>

\* Python's max() over a non-empty set of integers
Max(S) == CHOOSE x \in S : \A y \in S : x >= y

\* order_by('-created_at'): the newest row first (created_at grows with the id)
RECURSIVE Descending(_)
Descending(S) ==
    IF S = {} THEN <<>>
    ELSE LET m == Max(S) IN <<m>> \o Descending(S \ {m})

\* A queryset that is not scoped to the caller
get_queryset_All(a) == DOMAIN orders

\* OrderListCreateView.get_queryset: the ids of the rows it selects
get_queryset(a) ==
    IF ~IsAuthenticated(a) THEN {}
    ELSE IF users[a].type = "customer"
    THEN {o \in DOMAIN orders : orders[o].customer_user = a}
    ELSE {o \in DOMAIN orders : orders[o].business_user = a}

\* A list open to callers without credentials
ListOrders_AllowAny(a) ==
    /\ last' = [Response("ListOrders", a, 0, 200) EXCEPT !.body = Descending(get_queryset(a))]
    /\ UNCHANGED <<users, tokens, offers, details, orders, reviews, nextId, requests>>

\* OrderListCreateView GET: get_permissions, then list() over get_queryset;
\* the body recorded is the ids of the orders returned, in order
ListOrders(a) ==
    /\ IF ~IsAuthenticated(a) THEN
            last' = Response("ListOrders", a, 0, 401)
       ELSE last' = [Response("ListOrders", a, 0, 200) EXCEPT !.body = Descending(get_queryset(a))]
    /\ UNCHANGED <<users, tokens, offers, details, orders, reviews, nextId, requests>>

\* get_object_or_404(User, id=pk, type=User.Type.BUSINESS) of the count views
IsBusinessAccount(pk) == pk \in DOMAIN users /\ users[pk].type = "business"

\* A count that forgets the status filter
order_count_AnyStatus(ords, pk) ==
    Cardinality({o \in DOMAIN ords : ords[o].business_user = pk})

\* OrderCountView.get: Order.objects.filter(business_user=pk, status='in_progress').count()
order_count(ords, pk) ==
    Cardinality({o \in DOMAIN ords :
        ords[o].business_user = pk /\ ords[o].status = "in_progress"})

\* OrderCompleteView.get: Order.objects.filter(business_user=pk, status='completed').count()
completed_order_count(ords, pk) ==
    Cardinality({o \in DOMAIN ords :
        ords[o].business_user = pk /\ ords[o].status = "completed"})

\* OrderCountView GET
OrderCount(a, pk) ==
    /\ IF ~IsAuthenticated(a) THEN
            last' = Response("OrderCount", a, pk, 401)
       ELSE IF ~IsBusinessAccount(pk) THEN
            last' = Response("OrderCount", a, pk, 404)
       ELSE last' = [Response("OrderCount", a, pk, 200) EXCEPT !.body = <<order_count(orders, pk)>>]
    /\ UNCHANGED <<users, tokens, offers, details, orders, reviews, nextId, requests>>

\* OrderCompleteView GET
OrderComplete(a, pk) ==
    /\ IF ~IsAuthenticated(a) THEN
            last' = Response("OrderComplete", a, pk, 401)
       ELSE IF ~IsBusinessAccount(pk) THEN
            last' = Response("OrderComplete", a, pk, 404)
       ELSE last' = [Response("OrderComplete", a, pk, 200)
                        EXCEPT !.body = <<completed_order_count(orders, pk)>>]
    /\ UNCHANGED <<users, tokens, offers, details, orders, reviews, nextId, requests>>

(***************************************************************************)
(* reviews_app                                                             *)
(***************************************************************************)
\* permissions.IsCustomerUser.has_permission of reviews_app
IsReviewCustomer(a) == users[a].type = "customer"

\* An object permission that also lets the reviewed account through
IsReviewer_Party(a, rid) == reviews[rid].reviewer = a \/ reviews[rid].business_user = a

\* permissions.IsReviewer.has_object_permission
IsReviewer(a, rid) == reviews[rid].reviewer = a

\* A rating without the upper validator
RatingValid_NoMax(rating) == rating >= 0

\* Review.rating validators: MinValueValidator(0), MaxValueValidator(5)
RatingValid(rating) == rating >= 0 /\ rating <= 5

\* A validate without the duplicate check
AlreadyRated_Never(reviewer, business_user) == FALSE

\* ReviewSerializer.validate: Review.objects.filter(reviewer=, business_user=).exists()
AlreadyRated(reviewer, business_user) ==
    \E r \in DOMAIN reviews :
        reviews[r].reviewer = reviewer /\ reviews[r].business_user = business_user

\* ReviewListCreateView POST: get_permissions, field validation, validate,
\* perform_create. data carries business_user and rating, and may carry description
CreateReview(a, data) ==
    /\ nextId["review"] <= MaxReviews
    /\ IF ~IsAuthenticated(a) THEN
            /\ last' = Response("CreateReview", a, 0, 401)
            /\ UNCHANGED <<reviews, nextId>>
       ELSE IF ~IsReviewCustomer(a) THEN
            /\ last' = Response("CreateReview", a, 0, 403)
            /\ UNCHANGED <<reviews, nextId>>
       ELSE IF data.business_user \notin DOMAIN users \/ ~RatingValid(data.rating) THEN
            /\ last' = [Response("CreateReview", a, 0, 400) EXCEPT !.body = <<data.business_user, data.rating>>]
            /\ UNCHANGED <<reviews, nextId>>
       ELSE IF AlreadyRated(a, data.business_user) THEN
            /\ last' = [Response("CreateReview", a, 0, 400) EXCEPT !.body = <<data.business_user, data.rating>>]
            /\ UNCHANGED <<reviews, nextId>>
       ELSE /\ reviews' = reviews @@ (nextId["review"] :>
                    [business_user |-> data.business_user, reviewer |-> a, rating |-> data.rating,
                     description |-> IF "description" \in DOMAIN data THEN data.description ELSE ""])
            /\ nextId' = [nextId EXCEPT !["review"] = @ + 1]
            /\ last' = [Response("CreateReview", a, nextId["review"], 201)
                            EXCEPT !.body = <<data.business_user, data.rating>>]
    /\ UNCHANGED <<users, tokens, offers, details, orders, requests>>

\* A Review table with a unique constraint on (reviewer, business_user)
ReviewRowAllowed_UniquePair(reviewer, business_user) == ~AlreadyRated(reviewer, business_user)

\* The constraints the Review table checks on INSERT: the model declares no
\* Meta, no unique_together and no UniqueConstraint
ReviewRowAllowed(reviewer, business_user) == TRUE

\* ReviewListCreateView POST up to the end of serializer.is_valid(): the
\* permissions, the field validation and validate() with its query for an
\* existing Review of the pair. A request that passes is left waiting for
\* perform_create
CreateReviewValidate(w, a, data) ==
    /\ requests[w] = Idle
    /\ nextId["review"] <= MaxReviews
    /\ IF ~IsAuthenticated(a) THEN
            /\ last' = Response("CreateReview", a, 0, 401)
            /\ UNCHANGED requests
       ELSE IF ~IsReviewCustomer(a) THEN
            /\ last' = Response("CreateReview", a, 0, 403)
            /\ UNCHANGED requests
       ELSE IF data.business_user \notin DOMAIN users \/ ~RatingValid(data.rating) THEN
            /\ last' = [Response("CreateReview", a, 0, 400) EXCEPT !.body = <<data.business_user, data.rating>>]
            /\ UNCHANGED requests
       ELSE IF AlreadyRated(a, data.business_user) THEN
            /\ last' = [Response("CreateReview", a, 0, 400) EXCEPT !.body = <<data.business_user, data.rating>>]
            /\ UNCHANGED requests
       ELSE /\ requests' = [requests EXCEPT ![w] = [op |-> "CreateReview", user |-> a, data |-> data]]
            /\ UNCHANGED last
    /\ UNCHANGED <<users, tokens, offers, details, orders, reviews, nextId>>

\* ReviewListCreateView.perform_create of a request that passed is_valid():
\* serializer.save(reviewer=request.user) inserts the row; a constraint of
\* the table, if it had one, would raise IntegrityError (a server error)
CreateReviewSave(w) ==
    /\ requests[w].op = "CreateReview"
    /\ nextId["review"] <= MaxReviews
    /\ LET a == requests[w].user
           data == requests[w].data
       IN IF ~ReviewRowAllowed(a, data.business_user) THEN
               /\ last' = [Response("CreateReview", a, 0, 500) EXCEPT !.body = <<data.business_user, data.rating>>]
               /\ UNCHANGED <<reviews, nextId>>
          ELSE /\ reviews' = reviews @@ (nextId["review"] :>
                       [business_user |-> data.business_user, reviewer |-> a, rating |-> data.rating,
                        description |-> IF "description" \in DOMAIN data THEN data.description ELSE ""])
               /\ nextId' = [nextId EXCEPT !["review"] = @ + 1]
               /\ last' = [Response("CreateReview", a, nextId["review"], 201)
                               EXCEPT !.body = <<data.business_user, data.rating>>]
    /\ requests' = [requests EXCEPT ![w] = Idle]
    /\ UNCHANGED <<users, tokens, offers, details, orders>>

\* A PATCH serializer whose business_user stays writable
ReviewPatchFields_WithTarget == {"rating", "description", "business_user"}

\* The writable fields of ReviewSerializer on PATCH: get_fields makes
\* business_user read-only, Meta.read_only_fields the reviewer
ReviewPatchFields == {"rating", "description"}

\* ReviewDetailView PATCH: permission_classes, partial validation, perform_update.
\* validate looks for a Review of the reviewer with business_user None: none exists
UpdateReview(a, rid, data) ==
    /\ IF ~IsAuthenticated(a) THEN
            /\ last' = Response("UpdateReview", a, rid, 401)
            /\ UNCHANGED reviews
       ELSE IF rid \notin DOMAIN reviews THEN
            /\ last' = Response("UpdateReview", a, rid, 404)
            /\ UNCHANGED reviews
       ELSE IF ~IsReviewer(a, rid) THEN
            /\ last' = Response("UpdateReview", a, rid, 403)
            /\ UNCHANGED reviews
       ELSE IF "rating" \in DOMAIN data /\ ~RatingValid(data.rating) THEN
            /\ last' = [Response("UpdateReview", a, rid, 400)
                            EXCEPT !.body = <<Opt(data, "rating"), Opt(data, "business_user")>>]
            /\ UNCHANGED reviews
       ELSE /\ reviews' = [reviews EXCEPT ![rid] =
                    [f \in DOMAIN @ |-> IF f \in ReviewPatchFields /\ f \in DOMAIN data
                                        THEN data[f] ELSE @[f]]]
            /\ last' = [Response("UpdateReview", a, rid, 200)
                            EXCEPT !.body = <<Opt(data, "rating"), Opt(data, "business_user")>>]
    /\ UNCHANGED <<users, tokens, offers, details, orders, nextId, requests>>

\* ReviewDetailView.delete
DeleteReview(a, rid) ==
    /\ IF ~IsAuthenticated(a) THEN
            /\ last' = Response("DeleteReview", a, rid, 401)
            /\ UNCHANGED reviews
       ELSE IF rid \notin DOMAIN reviews THEN
            /\ last' = Response("DeleteReview", a, rid, 404)
            /\ UNCHANGED reviews
       ELSE IF ~IsReviewer(a, rid) THEN
            /\ last' = Response("DeleteReview", a, rid, 403)
            /\ UNCHANGED reviews
       ELSE /\ reviews' = Remove(reviews, rid)
            /\ last' = Response("DeleteReview", a, rid, 204)
    /\ UNCHANGED <<users, tokens, offers, details, orders, nextId, requests>>

(***************************************************************************)
(* auth_app                                                                *)
(***************************************************************************)
\* A save without the email check
EmailExists_Never(email) == FALSE

\* RegistrationSerializer.save: User.objects.filter(email=...).exists()
EmailExists(email) == \E u \in DOMAIN users : users[u].email = email

\* UniqueValidator of the model's username field
UsernameExists(username) == \E u \in DOMAIN users : users[u].username = username

\* RegistrationView.post. data: username, email, type (or none: the model
\* default), and pw_match: whether password equals repeated_password
Register(data) ==
    /\ nextId["user"] <= MaxUsers
    /\ IF UsernameExists(data.username) THEN
            /\ last' = [Response("Register", Anonymous, 0, 400) EXCEPT !.body = <<data.email>>]
            /\ UNCHANGED <<users, tokens, nextId>>
       ELSE IF ~data.pw_match THEN
            /\ last' = [Response("Register", Anonymous, 0, 400) EXCEPT !.body = <<data.email>>]
            /\ UNCHANGED <<users, tokens, nextId>>
       ELSE IF EmailExists(data.email) THEN
            /\ last' = [Response("Register", Anonymous, 0, 400) EXCEPT !.body = <<data.email>>]
            /\ UNCHANGED <<users, tokens, nextId>>
       ELSE /\ users' = users @@ (nextId["user"] :>
                    [username |-> data.username, email |-> data.email,
                     type |-> IF "type" \in DOMAIN data THEN data.type ELSE "customer",
                     first_name |-> ""])
            /\ tokens' = tokens \cup {nextId["user"]}
            /\ nextId' = [nextId EXCEPT !["user"] = @ + 1]
            /\ last' = [Response("Register", Anonymous, nextId["user"], 201) EXCEPT !.body = <<data.email>>]
    /\ UNCHANGED <<offers, details, orders, reviews, requests>>

\* A User table with a unique constraint on email
EmailRowAllowed_Unique(email) == ~EmailExists(email)

\* The constraints the User table checks on the email of an INSERT: the
\* model adds only the type field to AbstractUser, whose email is not unique
EmailRowAllowed(email) == TRUE

\* RegistrationView.post up to the email query of RegistrationSerializer.save:
\* is_valid() with the UniqueValidator of username, the password comparison,
\* the query for an existing User with the email. A request that passes is
\* left waiting for account.save()
RegisterValidate(w, data) ==
    /\ requests[w] = Idle
    /\ nextId["user"] <= MaxUsers
    /\ IF UsernameExists(data.username) \/ ~data.pw_match \/ EmailExists(data.email) THEN
            /\ last' = [Response("Register", Anonymous, 0, 400) EXCEPT !.body = <<data.email>>]
            /\ UNCHANGED requests
       ELSE /\ requests' = [requests EXCEPT ![w] = [op |-> "Register", data |-> data]]
            /\ UNCHANGED last
    /\ UNCHANGED <<users, tokens, offers, details, orders, reviews, nextId>>

\* The rest of RegistrationView.post: account.save() inserts the row (the
\* unique username of AbstractUser is checked by the table, IntegrityError
\* being a server error), then the token is created
RegisterSave(w) ==
    /\ requests[w].op = "Register"
    /\ nextId["user"] <= MaxUsers
    /\ LET data == requests[w].data
       IN IF UsernameExists(data.username) \/ ~EmailRowAllowed(data.email) THEN
               /\ last' = [Response("Register", Anonymous, 0, 500) EXCEPT !.body = <<data.email>>]
               /\ UNCHANGED <<users, tokens, nextId>>
          ELSE /\ users' = users @@ (nextId["user"] :>
                       [username |-> data.username, email |-> data.email,
                        type |-> IF "type" \in DOMAIN data THEN data.type ELSE "customer",
                        first_name |-> ""])
               /\ tokens' = tokens \cup {nextId["user"]}
               /\ nextId' = [nextId EXCEPT !["user"] = @ + 1]
               /\ last' = [Response("Register", Anonymous, nextId["user"], 201) EXCEPT !.body = <<data.email>>]
    /\ requests' = [requests EXCEPT ![w] = Idle]
    /\ UNCHANGED <<offers, details, orders, reviews>>

\* UserProfileRetrieveView.patch: the value set on a text field (val or "")
BlankIfNone(val) == IF val = None THEN "" ELSE val

\* UserProfileRetrieveView.patch: the uniqueness check of the new email,
\* skipped for an empty one
EmailTaken(pk, data) ==
    /\ "email" \in DOMAIN data
    /\ BlankIfNone(data.email) # ""
    /\ \E u \in DOMAIN users \ {pk} : users[u].email = BlankIfNone(data.email)

\* UserProfileRetrieveView.patch. data: any of first_name (one of the six
\* text fields, all handled alike) and email; None is JSON null
PatchProfile(a, pk, data) ==
    /\ IF ~IsAuthenticated(a) THEN
            /\ last' = Response("PatchProfile", a, pk, 401)
            /\ UNCHANGED users
       ELSE IF pk \notin DOMAIN users THEN
            /\ last' = Response("PatchProfile", a, pk, 404)
            /\ UNCHANGED users
       ELSE IF a # pk THEN
            /\ last' = Response("PatchProfile", a, pk, 403)
            /\ UNCHANGED users
       ELSE IF EmailTaken(pk, data) THEN
            /\ last' = Response("PatchProfile", a, pk, 400)
            /\ UNCHANGED users
       ELSE IF "email" \in DOMAIN data /\ data.email = None THEN
            \* user.save() with email NULL raises; the except clause answers 500
            /\ last' = Response("PatchProfile", a, pk, 500)
            /\ UNCHANGED users
       ELSE /\ users' = [users EXCEPT ![pk] =
                    [f \in DOMAIN @ |->
                        IF f = "first_name" /\ f \in DOMAIN data THEN BlankIfNone(data[f])
                        ELSE IF f = "email" /\ f \in DOMAIN data THEN data[f]
                        ELSE @[f]]]
            /\ last' = Response("PatchProfile", a, pk, 200)
    /\ UNCHANGED <<tokens, offers, details, orders, reviews, nextId, requests>>

(***************************************************************************)
(* dashboard_app                                                           *)
(***************************************************************************)
\* Sum('rating') over the Review rows with the given ids
RECURSIVE SumRatings(_, _)
SumRatings(revs, ids) ==
    IF ids = {} THEN 0
    ELSE LET r == CHOOSE x \in ids : TRUE
         IN revs[r].rating + SumRatings(revs, ids \ {r})

\* A rounding that cuts the second decimal off
RoundTenths_Floor(sum, n) == (10 * sum) \div n

\* round(sum / n, 1), in tenths: Python rounds to the nearest tenth, and a
\* value halfway between two tenths to the even one
RoundTenths(sum, n) ==
    LET q == (10 * sum) \div n
        r == (10 * sum) % n
    IN IF 2 * r < n THEN q
       ELSE IF 2 * r > n THEN q + 1
       ELSE IF q % 2 = 0 THEN q ELSE q + 1

\* round(avg_rating, 1) if avg_rating is not None else 0.0, in tenths
average_rating(revs) ==
    IF DOMAIN revs = {} THEN 0
    ELSE RoundTenths(SumRatings(revs, DOMAIN revs), Cardinality(DOMAIN revs))

\* DashboardOverviewView.get: no authentication, no permission. The body
\* recorded is review_count, average_rating (in tenths),
\* business_profile_count, offer_count
GetOverview(a) ==
    /\ last' = [Response("GetOverview", a, 0, 200) EXCEPT !.body =
                    <<Cardinality(DOMAIN reviews),
                      average_rating(reviews),
                      Cardinality({u \in DOMAIN users : users[u].type = "business"}),
                      Cardinality(DOMAIN offers)>>]
    /\ UNCHANGED <<users, tokens, offers, details, orders, reviews, nextId, requests>>

(***************************************************************************)
(* Requests the clients send (bounded input sets).                         *)
(***************************************************************************)
Prices == {1, 2}

Days == {1, 2}

\* The offer_type values a payload item may carry: the enum and one outside it
PayloadTypes == OfferType \cup {"gold"}

\* All lists of offer_type values of length 0..4
TypeLists == UNION {[1..n -> PayloadTypes] : n \in 0..4}

\* Two of the valid orders of the three types
ValidTypeLists == {<<"basic", "standard", "premium">>, <<"premium", "basic", "standard">>}

\* Prices and delivery times of the items of a create payload, by position
CreatePresets == {<<1, 2, 2, 2>>, <<2, 1, 2, 1>>, <<2, 2, 1, 1>>}

CreateItem(t, p, d) == [offer_type |-> t, price |-> p, delivery_time_in_days |-> d]

CreateDetails(lists) ==
    {[i \in 1..Len(ts) |-> CreateItem(ts[i], ps[i], ds[i])] :
        ts \in lists, ps \in CreatePresets, ds \in CreatePresets}

\* Create payloads: without the details key, or with one of the given lists
CreateOfferData(lists) ==
    {[title |-> "t1", description |-> "d1"]}
    \cup {[title |-> "t1", description |-> "d1", details |-> ds] : ds \in CreateDetails(lists)}

\* Items of an update payload: an offer_type (or none) and the fields to change
PriceChanges == {[price |-> 1, delivery_time_in_days |-> 2], [price |-> 2, delivery_time_in_days |-> 1]}

UpdateItems(changes) ==
    {c @@ [offer_type |-> t] : c \in changes, t \in OfferType}
    \cup {[offer_type |-> "gold", price |-> 1], [price |-> 1]}

UpdateDetails(changes) == UNION {[1..n -> UpdateItems(changes)] : n \in 0..MaxItems}

UpdateScalars == {EmptyTable, [title |-> "t2", description |-> "d2"]}

\* Update payloads: scalar fields, with or without a details list
UpdateOfferData(changes) ==
    UpdateScalars \cup {s @@ [details |-> ds] : s \in UpdateScalars, ds \in UpdateDetails(changes)}

(***************************************************************************)
(* Requests served at the same time against the shared store.  The         *)
(* project settings are outside the modelled sources; the store follows    *)
(* the design's section on concurrency: every request runs                 *)
(* in one transaction that ends with the response, other requests see      *)
(* committed rows only, and a row written by an open transaction is locked *)
(* against the writes of the others until that transaction ends.           *)
(***************************************************************************)
\* A store where every statement is committed on its own
AtomicRequests_Off == FALSE

\* The per-request transaction boundary of the storage layer
AtomicRequests == TRUE

\* Rows written and not yet committed by the request of worker v
Writes(v, key) == IF key \in DOMAIN requests[v] THEN requests[v][key] ELSE EmptyTable

\* What a statement of worker w reads: the committed rows, under the rows its
\* own transaction has written
ReadOffers(w) == Writes(w, "wr_offers") @@ offers

ReadDetails(w) == Writes(w, "wr_details") @@ details

\* Rows locked by the open transactions of the other workers
LockedOffers(w) == UNION {DOMAIN Writes(v, "wr_offers") : v \in Workers \ {w}}

LockedDetails(w) == UNION {DOMAIN Writes(v, "wr_details") : v \in Workers \ {w}}

\* The end of a statement of worker w that leaves the request at req with
\* the rows wo and wd written so far: inside a transaction the rows stay
\* with the request until the response (done) commits them; without one
\* they are in the tables at once
Store(w, req, wo, wd, done) ==
    IF AtomicRequests /\ ~done THEN
        /\ requests' = [requests EXCEPT ![w] = [wr_offers |-> wo, wr_details |-> wd] @@ req]
        /\ UNCHANGED <<offers, details>>
    ELSE
        /\ offers' = wo @@ offers
        /\ details' = wd @@ details
        /\ requests' = [requests EXCEPT ![w] =
               IF done THEN Idle ELSE [wr_offers |-> EmptyTable, wr_details |-> EmptyTable] @@ req]

\* The request fields of a record without its uncommitted rows
Position(r) == [k \in DOMAIN r \ {"wr_offers", "wr_details"} |-> r[k]]

\* OfferListCreateView POST up to Offer.objects.create: get_permissions, the
\* serializer validation, then the INSERT of the Offer row with the model
\* defaults (0) in min_price and min_delivery_time
CreateOfferBegin(w, a, data) ==
    /\ requests[w] = Idle
    /\ nextId["offer"] <= MaxOffers
    /\ IF ~IsAuthenticated(a) THEN
            /\ last' = [Response("CreateOffer", a, 0, 401) EXCEPT !.body = TypesOf(data)]
            /\ UNCHANGED <<offers, details, nextId, requests>>
       ELSE IF ~IsBusinessUser(a) THEN
            /\ last' = [Response("CreateOffer", a, 0, 403) EXCEPT !.body = TypesOf(data)]
            /\ UNCHANGED <<offers, details, nextId, requests>>
       ELSE IF "details" \notin DOMAIN data
               \/ (\E i \in 1..Len(data.details) : ~DetailItemValid(data.details[i]))
               \/ ~validate_details(data.details) THEN
            /\ last' = [Response("CreateOffer", a, 0, 400) EXCEPT !.body = TypesOf(data)]
            /\ UNCHANGED <<offers, details, nextId, requests>>
       ELSE LET oid == nextId["offer"]
            IN /\ Store(w, [op |-> "CreateOffer", user |-> a, data |-> data, offer |-> oid,
                            i |-> 0, min_price |-> <<>>, min_delivery |-> <<>>],
                        oid :> [user |-> a, title |-> data.title, description |-> data.description,
                                min_price |-> 0, min_delivery_time |-> 0],
                        EmptyTable, FALSE)
               /\ nextId' = [nextId EXCEPT !["offer"] = oid + 1]
               /\ UNCHANGED last
    /\ UNCHANGED <<users, tokens, orders, reviews>>

\* One turn of the loop of OfferCreateSerializer.create: the INSERT of the
\* next Detail row and the running minima
CreateOfferDetail(w) ==
    /\ requests[w].op = "CreateOffer"
    /\ requests[w].i < Len(requests[w].data.details)
    /\ LET r == requests[w]
           did == nextId["detail"]
           row == NewDetail(r.offer, r.data.details[r.i + 1])
           mp == IF r.min_price = <<>> \/ row.price < r.min_price[1]
                 THEN <<row.price>> ELSE r.min_price
           md == IF r.min_delivery = <<>> \/ row.delivery_time_in_days < r.min_delivery[1]
                 THEN <<row.delivery_time_in_days>> ELSE r.min_delivery
       IN /\ Store(w, [Position(r) EXCEPT !.i = r.i + 1, !.min_price = mp, !.min_delivery = md],
                   r.wr_offers, (did :> row) @@ r.wr_details, FALSE)
          /\ nextId' = [nextId EXCEPT !["detail"] = did + 1]
    /\ UNCHANGED <<users, tokens, orders, reviews, last>>

\* The end of OfferCreateSerializer.create and of the request:
\* offer.save(update_fields=[min_price, min_delivery_time, updated_at]),
\* then the 201 response
CreateOfferFinish(w) ==
    /\ requests[w].op = "CreateOffer"
    /\ requests[w].i = Len(requests[w].data.details)
    /\ LET r == requests[w]
       IN IF r.offer \notin DOMAIN ReadOffers(w) THEN
               /\ Store(w, Position(r), r.wr_offers, r.wr_details, TRUE)
               /\ last' = [Response("CreateOffer", r.user, r.offer, 500) EXCEPT !.body = TypesOf(r.data)]
          ELSE /\ Store(w, Position(r),
                        (r.offer :> [ReadOffers(w)[r.offer] EXCEPT
                                        !.min_price = OrZero(r.min_price),
                                        !.min_delivery_time = OrZero(r.min_delivery)])
                            @@ r.wr_offers,
                        r.wr_details, TRUE)
               /\ last' = [Response("CreateOffer", r.user, r.offer, 201) EXCEPT !.body = TypesOf(r.data)]
    /\ UNCHANGED <<users, tokens, orders, reviews, nextId>>

\* OfferDetailView.patch up to the mapping of _update_details: permissions,
\* get_object, and the Detail instances of the offer loaded into
\* existing_by_type. The request keeps the Offer instance and the Detail
\* instances it has read; nothing is written yet
UpdateOfferBegin(w, a, oid, data) ==
    /\ requests[w] = Idle
    /\ IF ~IsAuthenticated(a) THEN
            /\ last' = Response("UpdateOffer", a, oid, 401)
            /\ UNCHANGED requests
       ELSE IF oid \notin DOMAIN offers THEN
            /\ last' = Response("UpdateOffer", a, oid, 404)
            /\ UNCHANGED requests
       ELSE IF ~IsOfferOwner(a, oid) THEN
            /\ last' = Response("UpdateOffer", a, oid, 403)
            /\ UNCHANGED requests
       ELSE /\ requests' = [requests EXCEPT ![w] =
                   [op |-> "UpdateOffer", user |-> a, pk |-> oid, data |-> data,
                    items |-> IF "details" \in DOMAIN data THEN data.details ELSE <<>>,
                    i |-> 1, pc |-> "details",
                    offer |-> offers[oid],
                    existing |-> [d \in DetailsOf(details, oid) |-> details[d]],
                    wr_offers |-> EmptyTable, wr_details |-> EmptyTable]]
            /\ UNCHANGED last
    /\ UNCHANGED <<users, tokens, offers, details, orders, reviews, nextId>>

\* One turn of the loop of _update_details: the item's offer_type is looked
\* up in existing_by_type (400 and the end of the request if it is not
\* there), the fields of the item are set on that instance, and
\* detail.save() writes the whole row of the instance
UpdateOfferDetail(w) ==
    /\ requests[w].op = "UpdateOffer"
    /\ requests[w].pc = "details"
    /\ requests[w].i <= Len(requests[w].items)
    /\ LET r == requests[w]
           item == r.items[r.i]
           match == {d \in DOMAIN r.existing : r.existing[d].offer_type = Get(item, "offer_type")}
       IN IF match = {} THEN
               /\ Store(w, Position(r), r.wr_offers, r.wr_details, TRUE)
               /\ last' = Response("UpdateOffer", r.user, r.pk, 400)
          ELSE LET d == CHOOSE x \in match : TRUE
                   row == SetFields(r.existing[d], item)
               IN /\ d \notin LockedDetails(w)
                  /\ Store(w, [Position(r) EXCEPT !.i = r.i + 1, !.existing[d] = row],
                           r.wr_offers, (d :> row) @@ r.wr_details, FALSE)
                  /\ UNCHANGED last
    /\ UNCHANGED <<users, tokens, orders, reviews, nextId>>

\* _update_scalar_fields and the first half of _recalc_and_save: title and
\* description are set on the Offer instance, the Details of the offer are
\* read again and their minima set on the instance
UpdateOfferRecalc(w) ==
    /\ requests[w].op = "UpdateOffer"
    /\ requests[w].pc = "details"
    /\ requests[w].i > Len(requests[w].items)
    /\ LET r == requests[w]
       IN requests' = [requests EXCEPT ![w] =
               [r EXCEPT !.pc = "save",
                         !.offer = recalc_and_save(update_scalar_fields(r.offer, r.data),
                                                   ReadDetails(w), r.pk)]]
    /\ UNCHANGED <<users, tokens, offers, details, orders, reviews, nextId, last>>

\* The second half of _recalc_and_save and the response:
\* offer.save(update_fields=[title, description, min_price,
\* min_delivery_time, updated_at]) writes those fields of the instance
UpdateOfferSave(w) ==
    /\ requests[w].op = "UpdateOffer"
    /\ requests[w].pc = "save"
    /\ requests[w].pk \notin LockedOffers(w)
    /\ LET r == requests[w]
       IN /\ Store(w, Position(r), (r.pk :> r.offer) @@ r.wr_offers, r.wr_details, TRUE)
          /\ last' = Response("UpdateOffer", r.user, r.pk, 200)
    /\ UNCHANGED <<users, tokens, orders, reviews, nextId>>

\* LargeResultsSetPagination.page_size
page_size == 6

\* OfferListCreateView.get_queryset: the offers left by the max_delivery_time
\* and min_price query parameters
list_queryset(params) ==
    {o \in DOMAIN offers :
        /\ "max_delivery_time" \in DOMAIN params =>
                offers[o].min_delivery_time <= params.max_delivery_time
        /\ "min_price" \in DOMAIN params => offers[o].min_price >= params.min_price}

\* OfferListCreateView GET (AllowAny) without search, ordering or page
\* parameters: the first page of OfferSerializer representations; the body
\* recorded keeps id, details, min_price and min_delivery_time
ListOffers(a, params) ==
    /\ LET ids == Ascending(list_queryset(params))
           page == SubSeq(ids, 1, IF Len(ids) < page_size THEN Len(ids) ELSE page_size)
       IN last' = [Response("ListOffers", a, 0, 200) EXCEPT !.body =
               [i \in 1..Len(page) |->
                   [id |-> page[i], details |-> get_details(page[i]),
                    min_price |-> offers[page[i]].min_price,
                    min_delivery_time |-> offers[page[i]].min_delivery_time]]]
    /\ UNCHANGED <<users, tokens, offers, details, orders, reviews, nextId, requests>>

(***************************************************************************)
(* Specifications.                                                         *)
(***************************************************************************)
\* Accounts as left by four registrations: two businesses, two customers
SeedUsers ==
    (1 :> [username |-> "u1", email |-> "e1", type |-> "business", first_name |-> ""])
    @@ (2 :> [username |-> "u2", email |-> "e2", type |-> "business", first_name |-> ""])
    @@ (3 :> [username |-> "u3", email |-> "e3", type |-> "customer", first_name |-> ""])
    @@ (4 :> [username |-> "u4", email |-> "e4", type |-> "customer", first_name |-> ""])

InitMarket ==
    /\ users = SeedUsers
    /\ tokens = DOMAIN SeedUsers
    /\ offers = EmptyTable
    /\ details = EmptyTable
    /\ orders = EmptyTable
    /\ reviews = EmptyTable
    /\ nextId = [t \in Tables |-> IF t = "user" THEN 5 ELSE 1]
    /\ last = Response("none", Anonymous, 0, 0)
    /\ requests = NoRequests

\* Callers of the offer endpoints: no credentials, both businesses, a customer
OfferActors == {Anonymous, 1, 2, 3}

OfferIds == 1..MaxOffers

\* A request that is refused before its body is read carries the empty body
BodyFor(a, oid, bodies) ==
    IF IsAuthenticated(a) /\ oid \in DOMAIN offers /\ IsOfferOwner(a, oid)
    THEN bodies ELSE {EmptyTable}

OfferCreateBodies == CreateOfferData(ValidTypeLists \cup {<<"basic", "standard">>})

OfferUpdateBodies == UpdateOfferData(PriceChanges)

NextOffer ==
    \/ \E a \in OfferActors, data \in OfferCreateBodies : CreateOffer(a, data)
    \/ \E a \in OfferActors, oid \in OfferIds :
            \E data \in BodyFor(a, oid, OfferUpdateBodies) : UpdateOffer(a, oid, data)
    \/ \E a \in OfferActors, oid \in OfferIds : DeleteOffer(a, oid)

SpecOffer == InitMarket /\ [][NextOffer]_vars

\* Offer creation alone, over every list of up to four offer_type values;
\* the item at position i costs i and takes 5 - i days
AllCreateBodies ==
    OfferCreateBodies
    \cup {[title |-> "t1", description |-> "d1",
           details |-> [i \in 1..Len(ts) |-> CreateItem(ts[i], i, 5 - i)]] : ts \in TypeLists}

CreateActors == {Anonymous, 1, 3}

NextCreate ==
    \E a \in CreateActors, data \in AllCreateBodies : CreateOffer(a, data)

SpecCreate == InitMarket /\ [][NextCreate]_vars

\* Orders placed on one offer while its owner keeps editing and deleting it
ScenarioDetails ==
    <<[offer_type |-> "basic", title |-> "b", revisions |-> 1,
       delivery_time_in_days |-> 5, price |-> 10, features |-> <<"logo">>],
      [offer_type |-> "standard", title |-> "s", revisions |-> 2,
       delivery_time_in_days |-> 3, price |-> 20, features |-> <<"logo", "card">>],
      [offer_type |-> "premium", title |-> "p", revisions |-> 3,
       delivery_time_in_days |-> 1, price |-> 40, features |-> <<"logo", "card", "flyer">>]>>

OrderCreateBodies == {[title |-> "t1", description |-> "d1", details |-> ScenarioDetails]}

\* An edit that replaces every updatable field of a Detail
FullChange ==
    [title |-> "x", revisions |-> 9, delivery_time_in_days |-> 7, price |-> 15, features |-> <<>>]

OrderUpdateBodies ==
    {[title |-> "t2", description |-> "d2"]}
    \cup {[details |-> <<FullChange @@ [offer_type |-> t]>>] : t \in OfferType}

Businesses == {1, 2}

Customers == {3, 4}

DetailIds == 1..(3 * MaxOffers + 1)

OrderIds == 1..MaxOrders

StatusBodies == Status \cup {"shipped"}

NextOrder ==
    \/ \E a \in Businesses, data \in OrderCreateBodies : CreateOffer(a, data)
    \/ \E a \in Businesses, oid \in OfferIds :
            \E data \in BodyFor(a, oid, OrderUpdateBodies) : UpdateOffer(a, oid, data)
    \/ \E a \in Businesses, oid \in OfferIds : DeleteOffer(a, oid)
    \/ \E a \in Customers, detail_id \in DetailIds : CreateOrder(a, detail_id)
    \/ \E a \in Businesses, oid \in OrderIds, new_status \in StatusBodies :
            UpdateOrderStatus(a, oid, new_status)

SpecOrder == InitMarket /\ [][NextOrder]_vars

\* Reviews written by the two customers
ReviewActors == {Anonymous, 1, 3, 4}

\* business_user values of a create payload: both businesses, a customer, no account
ReviewTargets == {1, 2, 4, 9}

Ratings == {0, 5, 6}

ReviewCreateBodies ==
    {[business_user |-> b, rating |-> r] : b \in ReviewTargets, r \in Ratings}
    \cup {[business_user |-> 1, rating |-> 3, description |-> "fine"]}

ReviewUpdateBodies ==
    {[rating |-> r] : r \in Ratings}
    \cup {[description |-> "changed"], [business_user |-> 2, rating |-> 4]}

ReviewIds == 1..MaxReviews

NextReview ==
    \/ \E a \in ReviewActors, data \in ReviewCreateBodies : CreateReview(a, data)
    \/ \E a \in ReviewActors, rid \in ReviewIds, data \in ReviewUpdateBodies : UpdateReview(a, rid, data)
    \/ \E a \in ReviewActors, rid \in ReviewIds : DeleteReview(a, rid)

SpecReview == InitMarket /\ [][NextReview]_vars

\* Registration and profile edits, starting from the empty database
InitAuth ==
    /\ users = EmptyTable
    /\ tokens = {}
    /\ offers = EmptyTable
    /\ details = EmptyTable
    /\ orders = EmptyTable
    /\ reviews = EmptyTable
    /\ nextId = [t \in Tables |-> 1]
    /\ last = Response("none", Anonymous, 0, 0)
    /\ requests = NoRequests

Usernames == {"u1", "u2"}

Emails == {"e1", "e2", ""}

RegisterBodies ==
    {[username |-> u, email |-> e, pw_match |-> m, type |-> t] :
        u \in Usernames, e \in Emails, m \in BOOLEAN, t \in Type}
    \cup {[username |-> "u1", email |-> "e1", pw_match |-> TRUE]}

PatchBodies ==
    {[email |-> e] : e \in Emails \cup {None}}
    \cup {[first_name |-> n] : n \in {"Ann", None}}
    \cup {[first_name |-> "Bob", email |-> e] : e \in Emails}

UserIds == 1..MaxUsers

NextAuth ==
    \/ \E data \in RegisterBodies : Register(data)
    \/ \E a \in {Anonymous} \cup UserIds, pk \in UserIds, data \in PatchBodies : PatchProfile(a, pk, data)

SpecAuth == InitAuth /\ [][NextAuth]_vars

\* Accounts registering with a role, then trying every offer and order
\* endpoint, and trying to change their role through the profile endpoint
RoleRegisterBodies ==
    {[username |-> "u1", email |-> "e1", pw_match |-> TRUE, type |-> t] : t \in Type}
    \cup {[username |-> "u2", email |-> "e2", pw_match |-> TRUE, type |-> t] : t \in Type}
    \cup {[username |-> "u2", email |-> "e2", pw_match |-> TRUE]}

RolePatchBodies == {[type |-> "business"], [type |-> "customer", first_name |-> "Ann"]}

RoleActors == {Anonymous} \cup UserIds

RoleUpdateBodies ==
    {[title |-> "t2", description |-> "d2"],
     [details |-> <<FullChange @@ [offer_type |-> "basic"]>>]}

\* The standard Detail of the first offer
RoleDetailIds == {2}

NextRole ==
    \/ \E data \in RoleRegisterBodies : Register(data)
    \/ \E a \in UserIds, data \in RolePatchBodies : PatchProfile(a, a, data)
    \/ \E a \in RoleActors, data \in OrderCreateBodies : CreateOffer(a, data)
    \/ \E a \in RoleActors, oid \in OfferIds, data \in RoleUpdateBodies : UpdateOffer(a, oid, data)
    \/ \E a \in RoleActors, oid \in OfferIds : DeleteOffer(a, oid)
    \/ \E a \in RoleActors, detail_id \in RoleDetailIds : CreateOrder(a, detail_id)

SpecRole == InitAuth /\ [][NextRole]_vars

\* The order desk: both businesses have published the scenario offer, the
\* customers order from them, everybody reads and tries to change the orders
DeskOffers ==
    [o \in Businesses |->
        [user |-> o, title |-> "t1", description |-> "d1",
         min_price |-> Min({ScenarioDetails[i].price : i \in 1..3}),
         min_delivery_time |-> Min({ScenarioDetails[i].delivery_time_in_days : i \in 1..3})]]

DeskDetails ==
    [d \in 1..(3 * Cardinality(Businesses)) |->
        NewDetail((d + 2) \div 3, ScenarioDetails[((d - 1) % 3) + 1])]

InitDesk ==
    /\ users = SeedUsers
    /\ tokens = DOMAIN SeedUsers
    /\ offers = DeskOffers
    /\ details = DeskDetails
    /\ orders = EmptyTable
    /\ reviews = EmptyTable
    /\ nextId = [t \in Tables |->
                    IF t = "user" THEN Cardinality(DOMAIN SeedUsers) + 1
                    ELSE IF t = "offer" THEN Cardinality(DOMAIN DeskOffers) + 1
                    ELSE IF t = "detail" THEN Cardinality(DOMAIN DeskDetails) + 1
                    ELSE 1]
    /\ last = Response("none", Anonymous, 0, 0)
    /\ requests = NoRequests

DeskActors == {Anonymous} \cup Businesses \cup Customers

\* The standard Detail of the first offer, the basic Detail of the second,
\* and an id no Detail ever had
DeskDetailIds == {2, 4, 9}

DeskStatusBodies == StatusBodies \cup {None}

\* Callers and accounts of the read endpoints
DeskReaders == {Anonymous, 3}

DeskAccounts == {1, 2, 3}

NextDesk ==
    \/ \E a \in Businesses, oid \in DOMAIN DeskOffers : DeleteOffer(a, oid)
    \/ \E a \in DeskActors, detail_id \in DeskDetailIds : CreateOrder(a, detail_id)
    \/ \E a \in DeskActors, oid \in OrderIds, new_status \in DeskStatusBodies :
            UpdateOrderStatus(a, oid, new_status)
    \/ \E a \in DeskActors : ListOrders(a)
    \/ \E a \in DeskReaders, pk \in DeskAccounts : OrderCount(a, pk)
    \/ \E a \in DeskReaders, pk \in DeskAccounts : OrderComplete(a, pk)
    \/ \E a \in DeskReaders, oid \in DOMAIN DeskOffers : GetOfferDetail(a, oid)
    \/ \E a \in DeskActors, oid \in OrderIds : GetOrder(a, oid)

SpecDesk == InitDesk /\ [][NextDesk]_vars

\* The dashboard read over every table of up to four reviews the two
\* customers can have written about the two businesses
BoardPairs ==
    <<[reviewer |-> 3, business_user |-> 1], [reviewer |-> 3, business_user |-> 2],
      [reviewer |-> 4, business_user |-> 1], [reviewer |-> 4, business_user |-> 2]>>

BoardRatings == 0..5

InitBoard ==
    \E n \in 0..Len(BoardPairs) : \E rs \in [1..n -> BoardRatings] :
        /\ users = SeedUsers
        /\ tokens = DOMAIN SeedUsers
        /\ offers = EmptyTable
        /\ details = EmptyTable
        /\ orders = EmptyTable
        /\ reviews = [k \in 1..n |->
                        [business_user |-> BoardPairs[k].business_user,
                         reviewer |-> BoardPairs[k].reviewer,
                         rating |-> rs[k], description |-> ""]]
        /\ nextId = [t \in Tables |->
                        IF t = "user" THEN Cardinality(DOMAIN SeedUsers) + 1
                        ELSE IF t = "review" THEN n + 1
                        ELSE 1]
        /\ last = Response("none", Anonymous, 0, 0)
        /\ requests = NoRequests

BoardReaders == {Anonymous, 3}

BoardReviewIds == 1..Len(BoardPairs)

NextBoard ==
    \/ \E a \in BoardReaders : GetOverview(a)
    \/ \E a \in Businesses, data \in OrderCreateBodies : CreateOffer(a, data)
    \/ \E a \in Businesses, oid \in OfferIds : DeleteOffer(a, oid)
    \/ \E a \in Customers, rid \in BoardReviewIds : DeleteReview(a, rid)

SpecBoard == InitBoard /\ [][NextBoard]_vars

\* Two workers serving the customers' review requests at the same time
RaceReviewBodies ==
    {[business_user |-> b, rating |-> r] : b \in Businesses, r \in {0, 5}}
    \cup {[business_user |-> 1, rating |-> 6]}

RaceReviewActors == {1, 3, 4}

NextRaceReview ==
    \/ \E w \in Workers, a \in RaceReviewActors, data \in RaceReviewBodies :
            CreateReviewValidate(w, a, data)
    \/ \E w \in Workers : CreateReviewSave(w)

SpecRaceReview == InitMarket /\ [][NextRaceReview]_vars

\* Two workers serving registrations at the same time
RaceRegisterBodies ==
    {[username |-> u, email |-> e, pw_match |-> TRUE, type |-> t] :
        u \in Usernames, e \in {"e1", "e2"}, t \in Type}
    \cup {[username |-> "u1", email |-> "e1", pw_match |-> FALSE, type |-> "customer"]}

NextRaceRegister ==
    \/ \E w \in Workers, data \in RaceRegisterBodies : RegisterValidate(w, data)
    \/ \E w \in Workers : RegisterSave(w)

SpecRaceRegister == InitAuth /\ [][NextRaceRegister]_vars

\* A business publishing an offer while other callers list offers, retrieve
\* the offer and order its details
ListParams == {EmptyTable, [min_price |-> 2], [max_delivery_time |-> 1]}

RaceCreateBodies ==
    {[title |-> "t1", description |-> "d1"],
     [title |-> "t1", description |-> "d1",
      details |-> <<CreateItem("basic", 2, 2), CreateItem("standard", 1, 2), CreateItem("premium", 2, 1)>>],
     [title |-> "t1", description |-> "d1",
      details |-> <<CreateItem("premium", 1, 1), CreateItem("basic", 2, 2), CreateItem("standard", 2, 2)>>]}

NextRaceOffer ==
    \/ \E w \in Workers, a \in {1, 3}, data \in RaceCreateBodies :
            CreateOfferBegin(w, a, data)
    \/ \E w \in Workers : CreateOfferDetail(w)
    \/ \E w \in Workers : CreateOfferFinish(w)
    \/ \E a \in {Anonymous, 3}, params \in ListParams : ListOffers(a, params)
    \/ \E a \in {Anonymous, 3}, oid \in 1..MaxOffers : GetOfferDetail(a, oid)
    \/ \E a \in {3}, detail_id \in {1, 3} : CreateOrder(a, detail_id)

SpecRaceOffer == InitMarket /\ [][NextRaceOffer]_vars

\* The owner of the first published offer editing it from two clients at the
\* same time. Every payload is one the view answers with 200 when it runs
\* alone; a list with two items names basic before standard
RaceUpdateBodies ==
    {[details |-> <<[offer_type |-> "basic", price |-> 5]>>],
     [details |-> <<[offer_type |-> "basic", delivery_time_in_days |-> 2]>>],
     [title |-> "t2"],
     [details |-> <<[offer_type |-> "basic", price |-> 5],
                    [offer_type |-> "standard", delivery_time_in_days |-> 2]>>]}

NextRaceUpdate ==
    \/ \E w \in Workers, a \in Businesses, data \in RaceUpdateBodies :
            UpdateOfferBegin(w, a, 1, data)
    \/ \E w \in Workers : UpdateOfferDetail(w)
    \/ \E w \in Workers : UpdateOfferRecalc(w)
    \/ \E w \in Workers : UpdateOfferSave(w)

SpecRaceUpdate == InitDesk /\ [][NextRaceUpdate]_vars

(***************************************************************************)
(* Properties.                                                             *)
(***************************************************************************)
MinPriceOver(oid) == Min({details[d].price : d \in DetailsOf(details, oid)})

MinDeliveryOver(oid) == Min({details[d].delivery_time_in_days : d \in DetailsOf(details, oid)})

\* C1: every existing Offer's stored min_price is the minimum price over its
\* Details and its stored min_delivery_time the minimum delivery time over them.
C1_MinimaMatchDetails ==
    \A o \in DOMAIN offers :
        DetailsOf(details, o) # {} =>
            /\ offers[o].min_price = MinPriceOver(o)
            /\ offers[o].min_delivery_time = MinDeliveryOver(o)

\* C2: an UpdateOffer answered 400 (unknown offer_type in the details list)
\* leaves every Detail and the Offer as they were.
C2_UnknownTypeAppliesNothing ==
    [][(last'.op = "UpdateOffer" /\ last'.status = 400) =>
            (details' = details /\ offers' = offers)]_vars

\* C3 as stated: a new Order starts in_progress, and an Order that is
\* completed or canceled keeps that status in every later step.
C3_TerminalStatesFinal ==
    [][/\ \A o \in DOMAIN orders' \ DOMAIN orders : orders'[o].status = "in_progress"
       /\ \A o \in DOMAIN orders :
            orders[o].status \in {"completed", "canceled"} =>
                orders'[o].status = orders[o].status]_vars

\* C3 as amended: a new Order starts in_progress; a status changes only by an
\* UpdateOrderStatus of the order's business_user, and every such request
\* answered 200 leaves the order with the requested status, one of the three
\* values, whatever the status was before.
C3_StatusSetByBusinessRequest ==
    [][/\ \A o \in DOMAIN orders' \ DOMAIN orders : orders'[o].status = "in_progress"
       /\ \A o \in DOMAIN orders :
            orders'[o].status # orders[o].status =>
                /\ last'.op = "UpdateOrderStatus" /\ last'.pk = o /\ last'.status = 200
                /\ last'.user = orders[o].business_user
       /\ (last'.op = "UpdateOrderStatus" /\ last'.status = 200) =>
                /\ last'.body[1] \in {"in_progress", "completed", "canceled"}
                /\ orders'[last'.pk].status = last'.body[1]]_vars

\* An accepted request has put an order back to in_progress while another
\* order of the same business stays completed
C3_Witness ==
    /\ last.op = "UpdateOrderStatus" /\ last.status = 200 /\ last.body = <<"in_progress">>
    /\ \E o \in DOMAIN orders : o # last.pk /\ orders[o].status = "completed"

\* C4: a CreateOrder answered 201 adds exactly one Order: its six snapshot
\* fields are those of the Detail at that moment, its status is in_progress,
\* its customer_user the caller, its business_user the owner of the Detail's
\* Offer; every Order that existed before is unchanged.
C4_OrderSnapshotsDetail ==
    [][(last'.op = "CreateOrder" /\ last'.status = 201) =>
            /\ Cardinality(DOMAIN orders' \ DOMAIN orders) = 1
            /\ \A n \in DOMAIN orders' \ DOMAIN orders :
                /\ orders'[n].title = details[last'.pk].title
                /\ orders'[n].revisions = details[last'.pk].revisions
                /\ orders'[n].delivery_time_in_days = details[last'.pk].delivery_time_in_days
                /\ orders'[n].price = details[last'.pk].price
                /\ orders'[n].features = details[last'.pk].features
                /\ orders'[n].offer_type = details[last'.pk].offer_type
                /\ orders'[n].status = "in_progress"
                /\ orders'[n].customer_user = last'.user
                /\ orders'[n].business_user = offers[details[last'.pk].offer].user
            /\ \A o \in DOMAIN orders : o \in DOMAIN orders' /\ orders'[o] = orders[o]]_vars

\* The same customer has ordered the same Detail type twice
C4_Witness ==
    /\ last.op = "CreateOrder" /\ last.status = 201
    /\ Cardinality(DOMAIN orders) = 2
    /\ orders[1].customer_user = orders[2].customer_user
    /\ orders[1].offer_type = orders[2].offer_type

\* C5: no UpdateOffer and no DeleteOffer changes or removes an existing Order.
C5_OrdersIndependentOfOffer ==
    [][last'.op \in {"UpdateOffer", "DeleteOffer"} => orders' = orders]_vars

\* The offer was deleted after an Order had been taken from it
C5_Witness ==
    /\ last.op = "DeleteOffer" /\ last.status = 204
    /\ offers = EmptyTable
    /\ orders # EmptyTable

\* C6: at most one Review exists per (reviewer, business_user) pair, and a
\* CreateReview of a customer for a business_user the customer has already
\* reviewed is answered 400 and creates nothing.
C6_OneReviewPerPair ==
    /\ [](\A r1, r2 \in DOMAIN reviews :
            (reviews[r1].reviewer = reviews[r2].reviewer
                /\ reviews[r1].business_user = reviews[r2].business_user) => r1 = r2)
    /\ [][(/\ last'.op = "CreateReview"
           /\ Len(last'.body) = 2
           /\ \E r \in DOMAIN reviews :
                reviews[r].reviewer = last'.user /\ reviews[r].business_user = last'.body[1])
          => (last'.status = 400 /\ reviews' = reviews)]_vars

\* A second review of the same business by the same customer was refused
C6_Witness ==
    /\ last.op = "CreateReview" /\ last.status = 400
    /\ Len(last.body) = 2 /\ last.body[2] \in 0..5
    /\ \E r \in DOMAIN reviews :
            reviews[r].reviewer = last.user /\ reviews[r].business_user = last.body[1]

\* C7: a Register carrying the email of an existing Account - such as the
\* second of two registrations with the same email - is answered 400 and
\* creates no Account and no token.
C7_SecondRegistrationFails ==
    [][(last'.op = "Register" /\ \E u \in DOMAIN users : users[u].email = last'.body[1])
            => (last'.status = 400 /\ users' = users /\ tokens' = tokens)]_vars

\* The second of two registrations with one email and different usernames
C7_Witness ==
    /\ last.op = "Register" /\ last.status = 400
    /\ DOMAIN users = {1}
    /\ users[1].email = last.body[1]
    /\ users[1].username = "u1"
    /\ nextId["user"] = 2

\* C8: no two Accounts hold the same email value.
C8_EmailsUnique ==
    \A u, v \in DOMAIN users : users[u].email = users[v].email => u = v

\* C9: a CreateOffer answered 201 carried exactly 3 items whose offer_type
\* values are exactly basic, standard and premium, and created one Offer and
\* its three Details; every other CreateOffer creates no Offer and no Detail,
\* and is answered 400 when a business sent a list that is not of that shape.
C9_CreateNeedsThreeTypes ==
    [][last'.op = "CreateOffer" =>
            IF last'.status = 201
            THEN /\ Len(last'.body) = 3
                 /\ {last'.body[i] : i \in 1..3} = {"basic", "standard", "premium"}
                 /\ Cardinality(DOMAIN offers' \ DOMAIN offers) = 1
                 /\ Cardinality(DOMAIN details' \ DOMAIN details) = 3
            ELSE /\ offers' = offers
                 /\ details' = details
                 /\ (last'.user \in DOMAIN users /\ users[last'.user].type = "business")
                        => last'.status = 400]_vars

\* A business sent three items with a repeated offer_type and was refused
C9_Witness ==
    /\ last.op = "CreateOffer" /\ last.status = 400
    /\ Len(last.body) = 3
    /\ {last.body[i] : i \in 1..3} \subseteq {"basic", "standard", "premium"}
    /\ offers = EmptyTable /\ details = EmptyTable

\* C10: every existing Offer owns exactly three Details, one of each
\* offer_type, and every existing Detail belongs to an existing Offer.
C10_ThreeDetailsPerOffer ==
    /\ \A o \in DOMAIN offers :
        /\ Cardinality(DetailsOf(details, o)) = 3
        /\ {details[d].offer_type : d \in DetailsOf(details, o)} = {"basic", "standard", "premium"}
    /\ \A d \in DOMAIN details : details[d].offer \in DOMAIN offers

\* An offer was edited and then deleted
C10_Witness ==
    /\ last.op = "DeleteOffer" /\ last.status = 204
    /\ nextId["detail"] = 4
    /\ details = EmptyTable

\* C11: a CreateOffer of an authenticated account whose role is not business
\* is answered 403 and creates no Offer and no Detail; the owner of every
\* Offer is an Account with role business; no step changes the role of an
\* existing Account.
C11_OnlyBusinessOwnsOffers ==
    /\ [](\A o \in DOMAIN offers :
            offers[o].user \in DOMAIN users /\ users[offers[o].user].type = "business")
    /\ [][(/\ last'.op = "CreateOffer"
           /\ last'.user \in DOMAIN users
           /\ users[last'.user].type # "business")
          => (last'.status = 403 /\ offers' = offers /\ details' = details)]_vars
    /\ [][\A u \in DOMAIN users : u \in DOMAIN users' /\ users'[u].type = users[u].type]_vars

\* A customer who had sent a profile edit asking for the business role was
\* refused the creation of a well-formed offer
C11_Witness ==
    /\ last.op = "CreateOffer" /\ last.status = 403
    /\ Len(last.body) = 3
    /\ users[last.user].type = "customer"
    /\ users[last.user].first_name = "Ann"

\* C12: an UpdateOffer or DeleteOffer on an existing Offer by an
\* authenticated account that is not its owner is answered 403 and leaves
\* the Offer rows (cached minima included) and the Detail rows unchanged.
C12_NonOwnerChangesNothing ==
    [][(/\ last'.op \in {"UpdateOffer", "DeleteOffer"}
        /\ last'.user \in DOMAIN users
        /\ last'.pk \in DOMAIN offers
        /\ offers[last'.pk].user # last'.user)
       => (last'.status = 403 /\ offers' = offers /\ details' = details)]_vars

\* Another business was refused on an offer its owner had edited before
C12_Witness ==
    /\ last.op \in {"UpdateOffer", "DeleteOffer"} /\ last.status = 403
    /\ users[last.user].type = "business"
    /\ last.pk \in DOMAIN offers
    /\ offers[last.pk].user # last.user
    /\ offers[last.pk].title = "t2"

\* C13: a CreateOrder of an authenticated account whose role is not customer
\* is answered 403 and creates no Order; every Order's customer_user is an
\* Account with role customer and its business_user one with role business.
C13_OnlyCustomersOrder ==
    /\ [](\A o \in DOMAIN orders :
            /\ orders[o].customer_user \in DOMAIN users
            /\ users[orders[o].customer_user].type = "customer"
            /\ orders[o].business_user \in DOMAIN users
            /\ users[orders[o].business_user].type = "business")
    /\ [][(/\ last'.op = "CreateOrder"
           /\ last'.user \in DOMAIN users
           /\ users[last'.user].type # "customer")
          => (last'.status = 403 /\ orders' = orders /\ nextId' = nextId)]_vars

\* The owner of an offer was refused an order on its own Detail, which a
\* customer had ordered before
C13_Witness ==
    /\ last.op = "CreateOrder" /\ last.status = 403
    /\ last.pk \in DOMAIN details
    /\ offers[details[last.pk].offer].user = last.user
    /\ orders # EmptyTable

\* C14: a CreateOrder of a customer with a detail_id that is the id of no
\* existing Detail is answered 404 and creates no Order.
C14_MissingDetailNotFound ==
    [][(/\ last'.op = "CreateOrder"
        /\ last'.user \in DOMAIN users
        /\ users[last'.user].type = "customer"
        /\ last'.pk \notin DOMAIN details)
       => (last'.status = 404 /\ orders' = orders /\ nextId' = nextId)]_vars

\* A customer asked for a Detail that was ordered once and then removed
\* when its offer was deleted
C14_Witness ==
    /\ last.op = "CreateOrder" /\ last.status = 404
    /\ last.pk = 2
    /\ 1 \notin DOMAIN offers
    /\ \E o \in DOMAIN orders : orders[o].business_user = 1 /\ orders[o].title = "s"

\* C15: an UpdateOrderStatus on an existing Order by an authenticated
\* account other than the Order's business_user is answered 403 and leaves
\* every Order as it was.
C15_OnlyBusinessUserPatches ==
    [][(/\ last'.op = "UpdateOrderStatus"
        /\ last'.user \in DOMAIN users
        /\ last'.pk \in DOMAIN orders
        /\ orders[last'.pk].business_user # last'.user)
       => (last'.status = 403 /\ orders' = orders)]_vars

\* The customer of an order was refused on its own order, while the other
\* order belongs to another customer and another business
C15_Witness ==
    /\ last.op = "UpdateOrderStatus" /\ last.status = 403
    /\ last.pk \in DOMAIN orders
    /\ orders[last.pk].customer_user = last.user
    /\ \E o \in DOMAIN orders :
            /\ orders[o].customer_user # last.user
            /\ orders[o].business_user # orders[last.pk].business_user

\* C16: an UpdateOrderStatus of the Order's business_user without a status
\* or with a status that is none of in_progress, completed, canceled is
\* answered 400 and leaves every Order as it was; every Order's status is
\* one of the three values.
C16_StatusStaysInEnum ==
    /\ [](\A o \in DOMAIN orders :
            orders[o].status \in {"in_progress", "completed", "canceled"})
    /\ [][(/\ last'.op = "UpdateOrderStatus"
           /\ last'.pk \in DOMAIN orders
           /\ orders[last'.pk].business_user = last'.user
           /\ last'.body[1] \notin {"in_progress", "completed", "canceled"})
          => (last'.status = 400 /\ orders' = orders)]_vars

\* The business sent a body without a status for an order it had completed
C16_Witness ==
    /\ last.op = "UpdateOrderStatus" /\ last.status = 400
    /\ last.body = <<None>>
    /\ orders[last.pk].status = "completed"

\* C17: order-count of a business answers the number of Orders of that
\* business that are in_progress, completed-order-count the number that are
\* completed; an accepted change of an Order of business B from in_progress
\* to completed lowers B's order-count by 1, raises B's
\* completed-order-count by 1 and leaves both counts of every other account.
C17_CountsFollowStatus ==
    [][/\ (last'.op = "OrderCount" /\ last'.status = 200) =>
            last'.body = <<Cardinality({o \in DOMAIN orders :
                orders[o].business_user = last'.pk /\ orders[o].status = "in_progress"})>>
       /\ (last'.op = "OrderComplete" /\ last'.status = 200) =>
            last'.body = <<Cardinality({o \in DOMAIN orders :
                orders[o].business_user = last'.pk /\ orders[o].status = "completed"})>>
       /\ (/\ last'.op = "UpdateOrderStatus" /\ last'.status = 200
           /\ last'.body = <<"completed">>
           /\ orders[last'.pk].status = "in_progress") =>
            \A b \in DOMAIN users :
                IF b = orders[last'.pk].business_user
                THEN /\ order_count(orders', b) = order_count(orders, b) - 1
                     /\ completed_order_count(orders', b) = completed_order_count(orders, b) + 1
                ELSE /\ order_count(orders', b) = order_count(orders, b)
                     /\ completed_order_count(orders', b) = completed_order_count(orders, b)]_vars

\* The completed count of a business that has completed its only order was
\* read while the other business has an order in progress
C17_Witness ==
    /\ last.op = "OrderComplete" /\ last.status = 200 /\ last.body = <<1>>
    /\ \E o \in DOMAIN orders :
            orders[o].business_user # last.pk /\ orders[o].status = "in_progress"

\* C18: a ListOrders of an authenticated account answers, without
\* repetition, exactly the Orders whose customer_user is the account when
\* its role is customer, and exactly those whose business_user is the
\* account otherwise.
C18_ListScopedToCaller ==
    [][(last'.op = "ListOrders" /\ last'.user \in DOMAIN users) =>
            /\ last'.status = 200
            /\ {last'.body[i] : i \in 1..Len(last'.body)} =
                    IF users[last'.user].type = "customer"
                    THEN {o \in DOMAIN orders : orders[o].customer_user = last'.user}
                    ELSE {o \in DOMAIN orders : orders[o].business_user = last'.user}
            /\ \A i, j \in 1..Len(last'.body) : last'.body[i] = last'.body[j] => i = j]_vars

\* A customer listed its one order while another customer's order exists
C18_Witness ==
    /\ last.op = "ListOrders" /\ last.status = 200
    /\ users[last.user].type = "customer"
    /\ Len(last.body) = 1
    /\ Cardinality(DOMAIN orders) = 2

C20_PublicRead ==
    [][(/\ last'.op = "GetOfferDetail"
        /\ last'.user \notin DOMAIN users
        /\ last'.pk \in DOMAIN offers)
       => (last'.status = 200 /\ Len(last'.body) = 3)]_vars

\* C20 as amended: a GetOfferDetail without credentials is refused with 401;
\* one of any authenticated account, owner or not, on an existing Offer is
\* answered 200 with one link (id and /offerdetails/<id>/) per Detail of the
\* Offer, three in all.
C20_AuthenticatedRead ==
    [][last'.op = "GetOfferDetail" =>
            IF last'.user \notin DOMAIN users
            THEN last'.status = 401 /\ last'.body = <<>>
            ELSE IF last'.pk \in DOMAIN offers
            THEN /\ last'.status = 200
                 /\ Len(last'.body) = 3
                 /\ {last'.body[i].id : i \in 1..3} =
                        {d \in DOMAIN details : details[d].offer = last'.pk}
                 /\ \A i \in 1..3 : last'.body[i].url = <<"offerdetails", last'.body[i].id>>
            ELSE last'.status = 404]_vars

\* A customer read the offer of the second business
C20_Witness ==
    /\ last.op = "GetOfferDetail" /\ last.status = 200
    /\ users[last.user].type = "customer"
    /\ last.pk = 2
    /\ Len(last.body) = 3

\* C21: every Review has a rating in 0..5 and a reviewer whose role is
\* customer; a CreateReview of an authenticated non-customer is answered 403,
\* a CreateReview or UpdateReview carrying a rating outside 0..5 is answered
\* 400, and neither changes a Review.
C21_RatingAndReviewerValid ==
    /\ [](\A r \in DOMAIN reviews :
            /\ reviews[r].rating \in 0..5
            /\ reviews[r].reviewer \in DOMAIN users
            /\ users[reviews[r].reviewer].type = "customer")
    /\ [][(/\ last'.op = "CreateReview"
           /\ last'.user \in DOMAIN users
           /\ users[last'.user].type # "customer")
          => (last'.status = 403 /\ reviews' = reviews)]_vars
    /\ [][(/\ last'.op = "CreateReview"
           /\ Len(last'.body) = 2
           /\ last'.body[2] \notin 0..5)
          => (last'.status = 400 /\ reviews' = reviews)]_vars
    /\ [][(/\ last'.op = "UpdateReview"
           /\ Len(last'.body) = 2
           /\ last'.body[1] # <<>>
           /\ last'.body[1][1] \notin 0..5)
          => (last'.status = 400 /\ reviews' = reviews)]_vars

\* The reviewer tried to raise its rating of 5 above the maximum
C21_Witness ==
    /\ last.op = "UpdateReview" /\ last.status = 400
    /\ last.body[1] = <<6>>
    /\ reviews[last.pk].rating = 5

\* C22: an UpdateReview or DeleteReview on an existing Review by an
\* authenticated account that is not its reviewer is answered 403 and leaves
\* every Review as it was.
C22_OnlyReviewerChanges ==
    [][(/\ last'.op \in {"UpdateReview", "DeleteReview"}
        /\ last'.user \in DOMAIN users
        /\ last'.pk \in DOMAIN reviews
        /\ reviews[last'.pk].reviewer # last'.user)
       => (last'.status = 403 /\ reviews' = reviews)]_vars

\* The reviewed business tried to delete the review about it
C22_Witness ==
    /\ last.op = "DeleteReview" /\ last.status = 403
    /\ last.pk \in DOMAIN reviews
    /\ reviews[last.pk].business_user = last.user

\* C23: an UpdateReview leaves the business_user and the reviewer of every
\* Review as they were, also when the payload carries a business_user; it
\* changes no Review other than the one addressed.
C23_UpdateKeepsParties ==
    [][last'.op = "UpdateReview" =>
            \A r \in DOMAIN reviews :
                /\ r \in DOMAIN reviews'
                /\ reviews'[r].business_user = reviews[r].business_user
                /\ reviews'[r].reviewer = reviews[r].reviewer
                /\ r # last'.pk => reviews'[r] = reviews[r]]_vars

\* The reviewer's update that named another business was accepted: the
\* rating changed, the business did not
C23_Witness ==
    /\ last.op = "UpdateReview" /\ last.status = 200
    /\ last.body = <<(<<4>>), (<<2>>)>>
    /\ reviews[last.pk].rating = 4
    /\ reviews[last.pk].business_user = 1

\* C29: every Review's business_user is an Account with role business and
\* is not the Review's reviewer.
C29_ReviewedIsAnotherBusiness ==
    \A r \in DOMAIN reviews :
        /\ reviews[r].business_user \in DOMAIN users
        /\ users[reviews[r].business_user].type = "business"
        /\ reviews[r].business_user # reviews[r].reviewer

\* C24: a GetOverview changes nothing and answers 200 with review_count the
\* number of Reviews, business_profile_count the number of Accounts with
\* role business, offer_count the number of Offers, and average_rating 0.0
\* without Reviews and otherwise a tenth nearest to the mean of the ratings
\* (4.0 for the ratings 3, 4, 5).
C24_OverviewCountsAndMean ==
    [][last'.op = "GetOverview" =>
            /\ last'.status = 200
            /\ <<users, tokens, offers, details, orders, reviews, nextId>>' =
                    <<users, tokens, offers, details, orders, reviews, nextId>>
            /\ last'.body[1] = Cardinality(DOMAIN reviews)
            /\ last'.body[3] = Cardinality({u \in DOMAIN users : users[u].type = "business"})
            /\ last'.body[4] = Cardinality(DOMAIN offers)
            /\ IF DOMAIN reviews = {} THEN last'.body[2] = 0
               ELSE LET n == Cardinality(DOMAIN reviews)
                        d == 10 * SumRatings(reviews, DOMAIN reviews) - n * last'.body[2]
                    IN 2 * d <= n /\ 2 * d >= 0 - n
            /\ ({reviews[r].rating : r \in DOMAIN reviews} = {3, 4, 5}
                    /\ Cardinality(DOMAIN reviews) = 3) => last'.body[2] = 40]_vars

\* The overview of three reviews rated 5, 5 and 4 (mean 4.666...), after a
\* fourth was deleted, with one offer published
C24_Witness ==
    /\ last.op = "GetOverview" /\ last.status = 200
    /\ last.body = <<3, 47, 2, 1>>
    /\ nextId["review"] = 5

\* C30: a GetOrder of an authenticated account on an existing Order answers
\* 200 with the Order when the account is its customer_user or its
\* business_user, and refuses every other account (403 or 404) without any
\* field of the Order.
C30_OrderOnlyToParties ==
    [][(/\ last'.op = "GetOrder"
        /\ last'.user \in DOMAIN users
        /\ last'.pk \in DOMAIN orders)
       => IF last'.user \in {orders[last'.pk].customer_user, orders[last'.pk].business_user}
          THEN last'.status = 200 /\ last'.body = <<orders[last'.pk]>>
          ELSE last'.status \in {403, 404} /\ last'.body = <<>>]_vars

\* C25: a CreateReview that has passed the duplicate check always inserts
\* its Review when it comes to save, whatever was inserted in between:
\* nothing at the insert stands against a second Review of the pair. (The
\* state with two Reviews of one pair is C25_Witness.)
C25_ValidatedReviewIsInserted ==
    [][\A w \in Workers :
        (requests[w].op = "CreateReview" /\ requests'[w] = Idle) =>
            /\ last'.op = "CreateReview" /\ last'.status = 201
            /\ DOMAIN reviews' \ DOMAIN reviews = {last'.pk}
            /\ reviews'[last'.pk].reviewer = requests[w].user
            /\ reviews'[last'.pk].business_user = requests[w].data.business_user
            /\ \A r \in DOMAIN reviews : reviews'[r] = reviews[r]]_vars

\* Two Reviews of one reviewer for one business_user are stored
C25_Witness ==
    \E r1, r2 \in DOMAIN reviews :
        /\ r1 # r2
        /\ reviews[r1].reviewer = reviews[r2].reviewer
        /\ reviews[r1].business_user = reviews[r2].business_user

\* C26: a Register that has passed the email check, and whose username is
\* still free, always creates its Account when it comes to save, whatever
\* was saved in between: nothing at the insert stands against a second
\* Account with the email. (The state with two Accounts of one email is
\* C26_Witness.)
C26_ValidatedAccountIsInserted ==
    [][\A w \in Workers :
        (/\ requests[w].op = "Register" /\ requests'[w] = Idle
         /\ \A u \in DOMAIN users : users[u].username # requests[w].data.username) =>
            /\ last'.op = "Register" /\ last'.status = 201
            /\ DOMAIN users' \ DOMAIN users = {last'.pk}
            /\ users'[last'.pk].email = requests[w].data.email
            /\ users'[last'.pk].username = requests[w].data.username
            /\ last'.pk \in tokens']_vars

\* Two Accounts with different usernames and the same email exist, both
\* with a token
C26_Witness ==
    \E u, v \in DOMAIN users :
        /\ u # v
        /\ users[u].email = users[v].email
        /\ users[u].email # ""
        /\ users[u].username # users[v].username
        /\ {u, v} \subseteq tokens

\* An Offer row with its three Details and the minima over them
OfferWhole(o) ==
    LET ds == DetailsOf(details, o)
    IN /\ Cardinality(ds) = 3
       /\ offers[o].min_price = Min({details[d].price : d \in ds})
       /\ offers[o].min_delivery_time = Min({details[d].delivery_time_in_days : d \in ds})

\* C27: while offers are being created, every Offer another request can read
\* has three Details and the minima over them, and so has every Offer a
\* ListOffers lists, a GetOfferDetail returns or a CreateOrder orders from
C27_OfferCreationAppearsAtomic ==
    /\ [](\A o \in DOMAIN offers : OfferWhole(o))
    /\ [][last' # last =>
            /\ (last'.op = "ListOffers" =>
                    \A i \in 1..Len(last'.body) :
                        /\ Len(last'.body[i].details) = 3
                        /\ OfferWhole(last'.body[i].id)
                        /\ last'.body[i].min_price = offers[last'.body[i].id].min_price
                        /\ last'.body[i].min_delivery_time = offers[last'.body[i].id].min_delivery_time)
            /\ (last'.op = "GetOfferDetail" /\ last'.status = 200 =>
                    Len(last'.body) = 3 /\ OfferWhole(last'.pk))
            /\ (last'.op = "CreateOrder" /\ last'.status = 201 =>
                    OfferWhole(details[last'.pk].offer))]_vars

\* A retrieve of the offer being created, answered (not found) after the
\* Offer row and two of its Details were inserted
C27_Witness ==
    \E w \in Workers :
        /\ requests[w].op = "CreateOffer"
        /\ requests[w].i = 2
        /\ last.op = "GetOfferDetail"
        /\ last.pk = requests[w].offer
        /\ last.status = 404

\* C28: with two UpdateOffer requests served at the same time, whenever no
\* request is being served the stored minima of every Offer are the minima
\* over its Details, and a write of a Detail by a request changes, of what
\* the store holds, only the fields that request's payload carries (any
\* other field it changes is one the other request wrote since, put back to
\* the older value)
C28_ConcurrentUpdatesKeepMinimaAndWrites ==
    /\ []((\A w \in Workers : requests[w] = Idle) =>
            \A o \in DOMAIN offers :
                LET ds == DetailsOf(details, o)
                IN /\ offers[o].min_price = Min({details[d].price : d \in ds})
                   /\ offers[o].min_delivery_time = Min({details[d].delivery_time_in_days : d \in ds}))
    /\ [][\A w \in Workers :
            (/\ requests[w].op = "UpdateOffer"
             /\ requests[w].pc = "details"
             /\ requests[w].i <= Len(requests[w].items)
             /\ requests'[w] # requests[w]
             /\ requests'[w] # Idle) =>
                \A d \in DOMAIN details :
                    \A f \in DetailFields \ DOMAIN requests[w].items[requests[w].i] :
                        ReadDetails(w)'[d][f] = ReadDetails(w)[d][f]]_vars

====
